---- MODULE Spec2Model ----
(***************************************************************************)
(* A model of library/zerotier.py: one invocation of the Ansible module    *)
(* (main, lines 264-306) driving a ZeroTierNode against the local          *)
(* zerotier-one service and the remote management API.                     *)
(*                                                                         *)
(* The two services are the environment.  The local service holds the set  *)
(* of joined networks (local); an accepted join is applied by the service  *)
(* at some later moment (pending, Propagate), and somebody else may join   *)
(* or leave a network at any time (ExternalChange).  The remote service    *)
(* holds one member record per network (remote); a record is drawn from    *)
(* RecordsOver when a run first reads it, and somebody else may write it   *)
(* between the run's read and the run's write (ExternalWrite).  Every HTTP *)
(* call ends in one of the outcomes its caller tells apart.                *)
(***************************************************************************)
EXTENDS Integers, FiniteSets, Sequences, TLC

\* ------------------------------------------------------------- bounds
MaxGroups == 2
MaxExternal == 1

\* ---------------------------------------------------------- constants
max_run_wait == 10

\* ------------------------------------------------------------- values
Groups == 1..MaxGroups

NodeName == "zz12345"
Names == {NodeName, "old"}

NodeDescription == "someserver"
Descriptions == {NodeDescription, "stale"}

ConfigKeys == {"authorized", "hidden"}
ConfigValues == BOOLEAN

\* The dicts over some keys: the functions from some of them to values.
DictsOver(keys) == UNION {[K -> ConfigValues] : K \in SUBSET keys}

\* The config keys in use when the networks K are configured.  The records
\* of several networks multiply: a run that configures more than one
\* network is explored with one key, a run that configures at most one
\* with every key.
KeysFor(K) == IF Cardinality(K) <= 1 THEN ConfigKeys ELSE {"authorized"}

\* The key the documentation gives for the description, and the key
\* buildNodeConfig reads.
DocumentedDescriptionKey == "nodedescription"
DescriptionKey == "nodedescription:"
DescriptionKeys == {DocumentedDescriptionKey, DescriptionKey}

\* One entry of the networks parameter.
MemberSpec(g, config, dk) ==
    ("apikey" :> g) @@ ("config" :> config) @@ (dk :> NodeDescription)

\* The networks parameter: a dict from some network ids to their entries.
DesiredStates ==
    UNION {{[g \in K |-> MemberSpec(g, ch[g][1], ch[g][2])] :
               ch \in [K -> DictsOver(KeysFor(K)) \X DescriptionKeys]} :
           K \in SUBSET Groups}

\* A member record of the remote API.
RecordsOver(keys) ==
    [name : Names, description : Descriptions, config : DictsOver(keys)]

EmptyNodeConfig == [name |-> "", description |-> "", config |-> <<>>]

LocalCodes == {"200", "non200", "exc"}
RemoteCodes == {"200", "403", "404", "other", "exc"}

Terminal == {"done", "failed", "crashed"}

VARIABLES
    networks,       \* module.params['networks']
    check_mode,     \* module.check_mode
    local,          \* the joined networks the local service reports
    pending,        \* joins the local service accepted and has not applied
    remote,         \* the remote member records read or written so far
    ext_changes,    \* joins and leaves made by somebody else
    run,            \* "first" or "second" invocation
    pc,             \* position in main
    exit,           \* how the invocation ended
    reported,       \* the changed value handed to exit_json / fail_json
    changed,        \* self.result['changed']
    online,         \* resp_json['online'] of the status poll
    status_polls,   \* GETs of /status made by getZeroTierStatus
    iterations,     \* iterations of the online wait made
    remove_networks,
    add_networks,
    joined_todo,    \* the rest of the list line 299 iterates over
    network,        \* the loop variable
    current_full_node_config,
    \* ---- what the run has done (history)
    read_remove,    \* the set line 259 read
    read_add,       \* the set line 260 read
    toJoin,         \* add_networks as computed
    toLeave,        \* remove_networks as computed
    refreshed,      \* the set line 299 read
    checked,        \* networks with an access check issued
    check_ok,       \* networks whose access check returned 200
    joins,          \* networks with a join issued
    leaves,         \* networks with a leave issued
    gets,           \* member reads issued: [network, fetched]
    sets,           \* member writes issued: [network, fetched, found, sent]
    handled,        \* attribute cycles completed: [network, fetched]
    call_failed,    \* some call did not return 200
    failed_at,      \* the position at which the run failed or crashed
    discover_failed \* a read of the joined set failed during Discover

input == <<networks, check_mode>>
env == <<local, pending, remote, ext_changes, run>>
prog == <<pc, exit, reported, changed, online, status_polls, iterations,
          remove_networks, add_networks, joined_todo, network,
          current_full_node_config>>
hist == <<read_remove, read_add, toJoin, toLeave, refreshed, checked,
          check_ok, joins, leaves, gets, sets, handled, call_failed,
          failed_at, discover_failed>>
vars == <<input, env, prog, hist>>

\* ------------------------------------------------------ construction
\* The program state right after ZeroTierNode.__init__ set its defaults.
Fresh ==
    /\ pc = "token"
    /\ exit = "running"
    /\ reported = FALSE
    /\ changed = FALSE
    /\ online = FALSE
    /\ status_polls = 0
    /\ iterations = 0
    /\ remove_networks = {}
    /\ add_networks = {}
    /\ joined_todo = {}
    /\ network = 0
    /\ current_full_node_config = EmptyNodeConfig
    /\ read_remove = {}
    /\ read_add = {}
    /\ toJoin = {}
    /\ toLeave = {}
    /\ refreshed = {}
    /\ checked = {}
    /\ check_ok = {}
    /\ joins = {}
    /\ leaves = {}
    /\ gets = {}
    /\ sets = {}
    /\ handled = {}
    /\ call_failed = FALSE
    /\ failed_at = ""
    /\ discover_failed = FALSE

Init ==
    /\ networks \in DesiredStates
    /\ check_mode = FALSE
    /\ local \in SUBSET Groups
    /\ pending = {}
    /\ remote = <<>>
    /\ ext_changes = 0
    /\ run = "first"
    /\ Fresh

\* The module is invoked in check mode (line 278 declares that it may be).
InitCheckMode ==
    /\ networks \in DesiredStates
    /\ check_mode = TRUE
    /\ local \in SUBSET Groups
    /\ pending = {}
    /\ remote = <<>>
    /\ ext_changes = 0
    /\ run = "first"
    /\ Fresh

\* ------------------------------------------------------------- exits
\* module.fail_json(changed=False, ...): the process exits.
FailJson ==
    /\ pc' = "failed"
    /\ exit' = "fail_json"
    /\ reported' = FALSE
    /\ failed_at' = pc

\* An exception nobody catches: the process dies with a traceback.
Raise(error) ==
    /\ pc' = "crashed"
    /\ exit' = error
    /\ reported' = FALSE
    /\ failed_at' = pc

\* Control moves on inside main.
Goto(p) ==
    /\ pc' = p
    /\ UNCHANGED <<exit, reported, failed_at>>

\* ------------------------------------------------- pure computations
\* The wait with the loop test written as run_count < max_run_wait.
RECURSIVE OnlineWaitStrict(_, _)
OnlineWaitStrict(run_count, isOnline) ==
    IF run_count < max_run_wait
    THEN 1 + OnlineWaitStrict((IF isOnline THEN max_run_wait ELSE run_count) + 1,
                              isOnline)
    ELSE 0

\* Lines 111-115: the iterations the online wait makes from run_count on.
RECURSIVE OnlineWait(_, _)
OnlineWait(run_count, isOnline) ==
    IF run_count <= max_run_wait
    THEN 1 + OnlineWait((IF isOnline THEN max_run_wait ELSE run_count) + 1,
                        isOnline)
    ELSE 0

\* A getter that forgot the status check and ends the run on an exception
\* only.
LocalCallAbortsOnException(code) == code = "exc"

\* Lines 138-145, 172-179, 189-196: a call to the local service ends the
\* run unless it returned 200.
LocalCallAborts(code) == code /= "200"

\* Lines 155-162: checkAPIKey ends the run on 403, 404 and on an exception;
\* on 200 it returns True and on any other status it returns None.
CheckAPIKeyAborts(code) == code \in {"403", "404", "exc"}

\* Lines 152, 203, 221: self.networks[network] finds the entry.
KnownNetwork(n) == n \in DOMAIN networks

\* An assignment in place of the update: the desired dict replaces the
\* fetched one.
ReplaceDict(d, u) == u

\* Line 239: dict.update.
UpdateDict(d, u) ==
    [k \in DOMAIN d \cup DOMAIN u |-> IF k \in DOMAIN u THEN u[k] ELSE d[k]]

\* Line 242: what current_full_node_config['config'] holds when it is
\* compared with node_config.  Line 238 bound node_config to that very
\* dict, so line 239 updated it too.
ConfigAtComparison(fetched_config, node_config) == node_config

\* Line 259.
RemoveNetworks(joined) == joined \ DOMAIN networks

\* Line 260.
AddNetworks(joined) == DOMAIN networks \ joined

\* ------------------------------------------------------- environment
\* The positions of main from which a read of the joined set (lines 259,
\* 260, 299) is still to come.  After line 299 the run does not look at the
\* local service again, and what happens there cannot reach it.
ReadAhead == {"compare_remove", "compare_add", "join", "join_call", "leave",
              "sleep", "refresh"}

\* The local service applies the joins it accepted.
Propagate ==
    /\ pc \in ReadAhead \cup {"done"}
    /\ pending /= {}
    /\ local' = local \cup pending
    /\ pending' = {}
    /\ UNCHANGED <<input, remote, ext_changes, run, prog, hist>>

\* Somebody else joins or leaves a network on this node while a run is
\* under way.
ExternalChange ==
    /\ pc \in ReadAhead
    /\ ext_changes < MaxExternal
    /\ \E g \in Groups :
          local' = IF g \in local THEN local \ {g} ELSE local \cup {g}
    /\ ext_changes' = ext_changes + 1
    /\ UNCHANGED <<input, pending, remote, run, prog, hist>>

\* Somebody else writes the member record of the network being handled
\* after the run has read it.
ExternalWrite ==
    /\ pc = "send"
    /\ ext_changes < MaxExternal
    /\ \E rec \in RecordsOver(KeysFor(DOMAIN networks)) \ {remote[network]} :
          remote' = [remote EXCEPT ![network] = rec]
    /\ ext_changes' = ext_changes + 1
    /\ UNCHANGED <<input, local, pending, run, prog, hist>>

\* ------------------------------------------------- ZeroTierNode.__init__
\* Lines 119-128.
GetZeroTierAuthToken ==
    /\ pc = "token"
    /\ \E file \in {"read", "unreadable", "empty"} :
          /\ call_failed' = (file /= "read")
          /\ CASE file = "read" -> Goto("status")
               [] file = "unreadable" -> FailJson
               [] file = "empty" -> Raise("IndexError")
    /\ UNCHANGED <<input, env, changed, online, status_polls, iterations,
                   remove_networks, add_networks, joined_todo, network,
                   current_full_node_config, read_remove, read_add, toJoin,
                   toLeave, refreshed, checked, check_ok, joins, leaves,
                   gets, sets, handled, discover_failed>>

\* Lines 93-117: one GET of /status, then the wait for the node to be
\* online.
GetZeroTierStatus ==
    /\ pc = "status"
    /\ status_polls' = status_polls + 1
    /\ \E code \in LocalCodes :
          /\ call_failed' = (call_failed \/ code /= "200")
          /\ IF LocalCallAborts(code)
             THEN /\ FailJson
                  /\ UNCHANGED <<online, iterations>>
             ELSE \E isOnline \in BOOLEAN :
                     /\ online' = isOnline
                     /\ iterations' = OnlineWait(0, isOnline)
                     /\ Goto("compare_remove")
    /\ UNCHANGED <<input, env, changed, remove_networks, add_networks,
                   joined_todo, network, current_full_node_config,
                   read_remove, read_add, toJoin, toLeave, refreshed,
                   checked, check_ok, joins, leaves, gets, sets, handled,
                   discover_failed>>

\* ------------------------------------------ compareTargetJoinedNetworks
\* Line 259: getJoinedNetworks, and the networks to leave.  The constructor
\* has returned: the locals of its online wait are gone, and nothing reads
\* local_config['online'] from here on.
CompareRemove ==
    /\ pc = "compare_remove"
    /\ \E code \in LocalCodes :
          /\ call_failed' = (call_failed \/ code /= "200")
          /\ discover_failed' = (discover_failed \/ code /= "200")
          /\ IF LocalCallAborts(code)
             THEN /\ FailJson
                  /\ UNCHANGED <<remove_networks, read_remove, toLeave>>
             ELSE /\ read_remove' = local
                  /\ remove_networks' = RemoveNetworks(local)
                  /\ toLeave' = RemoveNetworks(local)
                  /\ Goto("compare_add")
    /\ online' = FALSE
    /\ iterations' = 0
    /\ UNCHANGED <<input, env, changed, status_polls,
                   add_networks, joined_todo, network,
                   current_full_node_config, read_add, toJoin, refreshed,
                   checked, check_ok, joins, leaves, gets, sets, handled>>

\* Line 260: getJoinedNetworks again, and the networks to join.
CompareAdd ==
    /\ pc = "compare_add"
    /\ \E code \in LocalCodes :
          /\ call_failed' = (call_failed \/ code /= "200")
          /\ discover_failed' = (discover_failed \/ code /= "200")
          /\ IF LocalCallAborts(code)
             THEN /\ FailJson
                  /\ UNCHANGED <<add_networks, read_add, toJoin>>
             ELSE /\ read_add' = local
                  /\ add_networks' = AddNetworks(local)
                  /\ toJoin' = AddNetworks(local)
                  /\ Goto("join")
    /\ UNCHANGED <<input, env, changed, online, status_polls, iterations,
                   remove_networks, joined_todo, network,
                   current_full_node_config, read_remove, toLeave,
                   refreshed, checked, check_ok, joins, leaves, gets, sets,
                   handled>>

\* ------------------------------------------------------ main, 285-293
\* Lines 286-287: the next network to join, and its access check.
JoinCheckAPIKey ==
    /\ pc = "join"
    /\ add_networks /= {}
    /\ \E n \in add_networks :
          /\ network' = n
          /\ add_networks' = add_networks \ {n}
          /\ IF ~KnownNetwork(n)
             THEN /\ Raise("KeyError")
                  /\ UNCHANGED <<checked, check_ok, call_failed>>
             ELSE \E code \in RemoteCodes :
                     /\ checked' = checked \cup {n}
                     /\ check_ok' = IF code = "200" THEN check_ok \cup {n}
                                                    ELSE check_ok
                     /\ call_failed' = (call_failed \/ code /= "200")
                     /\ IF CheckAPIKeyAborts(code)
                        THEN FailJson
                        ELSE Goto("join_call")
    /\ UNCHANGED <<input, env, changed, online, status_polls, iterations,
                   remove_networks, joined_todo, current_full_node_config,
                   read_remove, read_add, toJoin, toLeave, refreshed, joins,
                   leaves, gets, sets, handled, discover_failed>>

\* Line 288: joinNetwork.
JoinNetwork ==
    /\ pc = "join_call"
    /\ joins' = joins \cup {network}
    /\ \E code \in LocalCodes :
          /\ call_failed' = (call_failed \/ code /= "200")
          /\ IF LocalCallAborts(code)
             THEN /\ FailJson
                  /\ UNCHANGED pending
             ELSE /\ pending' = pending \cup {network}
                  /\ Goto("join")
    /\ UNCHANGED <<input, local, remote, ext_changes, run, changed,
                   online, status_polls, iterations, remove_networks,
                   add_networks, joined_todo, network,
                   current_full_node_config, read_remove, read_add, toJoin,
                   toLeave, refreshed, checked, check_ok, leaves, gets, sets,
                   handled, discover_failed>>

\* Line 286: the list is exhausted.
JoinDone ==
    /\ pc = "join"
    /\ add_networks = {}
    /\ Goto("leave")
    /\ UNCHANGED <<input, env, changed, online, status_polls, iterations,
                   remove_networks, add_networks, joined_todo, network,
                   current_full_node_config, hist>>

\* Lines 291-293: the next network to leave, its access check and
\* leaveNetwork.  checkAPIKey looks the network up in self.networks
\* (line 152) before it calls anything.
LeaveCheckAPIKeyAndLeave ==
    /\ pc = "leave"
    /\ remove_networks /= {}
    /\ \E n \in remove_networks :
          /\ network' = n
          /\ remove_networks' = remove_networks \ {n}
          /\ IF ~KnownNetwork(n)
             THEN /\ Raise("KeyError")
                  /\ UNCHANGED <<local, checked, check_ok, leaves,
                                 call_failed>>
             ELSE \E code \in RemoteCodes, lcode \in LocalCodes :
                     /\ checked' = checked \cup {n}
                     /\ check_ok' = IF code = "200" THEN check_ok \cup {n}
                                                    ELSE check_ok
                     /\ IF CheckAPIKeyAborts(code)
                        THEN /\ FailJson
                             /\ call_failed' = TRUE
                             /\ UNCHANGED <<local, leaves>>
                        ELSE /\ leaves' = leaves \cup {n}
                             /\ call_failed' = (call_failed \/ code /= "200"
                                                   \/ lcode /= "200")
                             /\ IF LocalCallAborts(lcode)
                                THEN /\ FailJson
                                     /\ UNCHANGED local
                                ELSE /\ local' = local \ {n}
                                     /\ Goto("leave")
    /\ UNCHANGED <<input, pending, remote, ext_changes, run, changed, online, status_polls, iterations, add_networks,
                   joined_todo, current_full_node_config, read_remove,
                   read_add, toJoin, toLeave, refreshed, joins, gets, sets,
                   handled, discover_failed>>

\* A main without line 296: the attribute loop follows the leave loop at
\* once.
LeaveDoneNoWait ==
    /\ pc = "leave"
    /\ remove_networks = {}
    /\ Goto("refresh")
    /\ UNCHANGED <<input, env, changed, online, status_polls, iterations,
                   remove_networks, add_networks, joined_todo, network,
                   current_full_node_config, hist>>

\* Line 291: the list is exhausted.
LeaveDone ==
    /\ pc = "leave"
    /\ remove_networks = {}
    /\ Goto("sleep")
    /\ UNCHANGED <<input, env, changed, online, status_polls, iterations,
                   remove_networks, add_networks, joined_todo, network,
                   current_full_node_config, hist>>

\* Line 296: time.sleep(10).
Sleep ==
    /\ pc = "sleep"
    /\ Goto("refresh")
    /\ UNCHANGED <<input, env, changed, online, status_polls, iterations,
                   remove_networks, add_networks, joined_todo, network,
                   current_full_node_config, hist>>

\* ------------------------------------------------------ main, 298-306
\* Line 299: getJoinedNetworks, the list the attribute loop iterates over.
Refresh ==
    /\ pc = "refresh"
    /\ \E code \in LocalCodes :
          /\ call_failed' = (call_failed \/ code /= "200")
          /\ IF LocalCallAborts(code)
             THEN /\ FailJson
                  /\ UNCHANGED <<joined_todo, refreshed>>
             ELSE /\ joined_todo' = local
                  /\ refreshed' = local
                  /\ Goto("attr")
    /\ UNCHANGED <<input, env, changed, online, status_polls, iterations,
                   remove_networks, add_networks, network,
                   current_full_node_config, read_remove, read_add, toJoin,
                   toLeave, checked, check_ok, joins, leaves, gets, sets,
                   handled, discover_failed>>

\* The record the remote API returns for network n.
RemoteRecords(n) ==
    IF n \in DOMAIN remote THEN {remote[n]}
                           ELSE RecordsOver(KeysFor(DOMAIN networks))

\* Lines 235-252: getNodeConfig, then the merge and the comparisons.
BuildNodeConfig ==
    /\ pc = "attr"
    /\ joined_todo /= {}
    /\ \E n \in joined_todo :
          /\ network' = n
          /\ joined_todo' = joined_todo \ {n}
          /\ IF ~KnownNetwork(n)
             THEN /\ Raise("KeyError")
                  /\ UNCHANGED <<remote, changed, current_full_node_config,
                                 gets, call_failed>>
             ELSE \E code \in RemoteCodes :
                     /\ call_failed' = (call_failed \/ code /= "200")
                     /\ IF code /= "200"
                        THEN /\ CASE code \in {"403", "404"} -> FailJson
                                  [] code = "exc" -> Raise("AttributeError")
                                  [] code = "other" -> Raise("TypeError")
                             /\ gets' = gets \cup
                                   {[network |-> n, fetched |-> EmptyNodeConfig]}
                             /\ UNCHANGED <<remote, changed,
                                            current_full_node_config>>
                        ELSE \E rec \in RemoteRecords(n) :
                           LET node_config ==
                                   UpdateDict(rec.config, networks[n].config)
                               compared ==
                                   ConfigAtComparison(rec.config, node_config)
                               c1 == changed \/ node_config /= compared
                               c2 == c1 \/ rec.name /= NodeName
                               hasKey == DescriptionKey \in DOMAIN networks[n]
                               c3 == c2 \/ rec.description
                                            /= networks[n][DescriptionKey]
                           IN  /\ remote' = (n :> rec) @@ remote
                               /\ gets' = gets \cup
                                     {[network |-> n, fetched |-> rec]}
                               /\ IF ~hasKey
                                  THEN /\ Raise("KeyError")
                                       /\ changed' = c2
                                       /\ current_full_node_config' =
                                             [rec EXCEPT !.config = node_config,
                                                         !.name = NodeName]
                                  ELSE /\ Goto("send")
                                       /\ changed' = c3
                                       /\ current_full_node_config' =
                                             [name |-> NodeName,
                                              description |->
                                                 networks[n][DescriptionKey],
                                              config |-> node_config]
    /\ UNCHANGED <<input, local, pending, ext_changes, run, online,
                   status_polls, iterations, remove_networks, add_networks,
                   read_remove, read_add, toJoin, toLeave, refreshed,
                   checked, check_ok, joins, leaves, sets, handled,
                   discover_failed>>

\* The record getNodeConfig returned for the network being handled.
Fetched == (CHOOSE x \in gets : x.network = network).fetched

\* A POST that carries the version of the record it was built from, which
\* the remote API accepts only if the record is still at that version.
WriteAcceptedIfUnchanged(found, fetched) == found = fetched

\* Lines 202-206: the POST names the member and carries the new record, and
\* nothing of the record it was built from: the remote API applies it
\* whatever the record holds by now.
WriteAccepted(found, fetched) == TRUE

\* Lines 207-213: the outcomes setNodeConfig tells apart.  It returns True
\* on 200 and None on any other status that raises nothing, and its caller
\* drops the value: a status of that kind is counted with 200 here.
SetCodes == {"200", "403", "404", "exc"}

\* Lines 255-256: setNodeConfig if self.result['changed'] is set; then
\* buildNodeConfig returns and its locals are gone.
SendAway ==
    /\ pc = "send"
    /\ IF changed
       THEN /\ sets' = sets \cup {[network |-> network, fetched |-> Fetched,
                                   found |-> remote[network],
                                   sent |-> current_full_node_config]}
            /\ \E code \in SetCodes :
                  /\ call_failed' = (call_failed \/ code /= "200")
                  /\ CASE code = "200" ->
                             /\ remote' =
                                   IF WriteAccepted(remote[network], Fetched)
                                   THEN [remote EXCEPT ![network] =
                                            current_full_node_config]
                                   ELSE remote
                             /\ handled' = handled \cup
                                   {[network |-> network, fetched |-> Fetched]}
                             /\ current_full_node_config' = EmptyNodeConfig
                             /\ Goto("attr")
                       [] code \in {"403", "404"} ->
                             /\ FailJson
                             /\ UNCHANGED <<remote, handled,
                                            current_full_node_config>>
                       [] code = "exc" ->
                             /\ Raise("AttributeError")
                             /\ UNCHANGED <<remote, handled,
                                            current_full_node_config>>
       ELSE /\ handled' = handled \cup
                   {[network |-> network, fetched |-> Fetched]}
            /\ current_full_node_config' = EmptyNodeConfig
            /\ Goto("attr")
            /\ UNCHANGED <<remote, sets, call_failed>>
    /\ UNCHANGED <<input, local, pending, ext_changes, run, changed,
                   online, status_polls, iterations, remove_networks,
                   add_networks, joined_todo, network,
                   read_remove, read_add, toJoin,
                   toLeave, refreshed, checked, check_ok, joins, leaves, gets,
                   discover_failed>>

\* Lines 303-306: exit_json.
EmitStatus ==
    /\ pc = "attr"
    /\ joined_todo = {}
    /\ pc' = "done"
    /\ exit' = "exit_json"
    /\ reported' = changed
    /\ UNCHANGED failed_at
    /\ UNCHANGED <<input, env, changed, online, status_polls, iterations,
                   remove_networks, add_networks, joined_todo, network,
                   current_full_node_config, hist>>

\* The module is run again with the same parameters, once the services
\* have applied what the first run asked for and with nobody else having
\* touched the node.
StartSecondRun ==
    /\ pc = "done"
    /\ run = "first"
    /\ pending = {}
    /\ ext_changes = 0
    /\ run' = "second"
    /\ pc' = "token"
    /\ exit' = "running"
    /\ reported' = FALSE
    /\ changed' = FALSE
    /\ online' = FALSE
    /\ status_polls' = 0
    /\ iterations' = 0
    /\ remove_networks' = {}
    /\ add_networks' = {}
    /\ joined_todo' = {}
    /\ network' = 0
    /\ current_full_node_config' = EmptyNodeConfig
    /\ read_remove' = {}
    /\ read_add' = {}
    /\ toJoin' = {}
    /\ toLeave' = {}
    /\ refreshed' = {}
    /\ checked' = {}
    /\ check_ok' = {}
    /\ joins' = {}
    /\ leaves' = {}
    /\ gets' = {}
    /\ sets' = {}
    /\ handled' = {}
    /\ call_failed' = FALSE
    /\ failed_at' = ""
    /\ discover_failed' = FALSE
    /\ UNCHANGED <<input, local, pending, remote, ext_changes>>

\* ------------------------------------------------------ specification
Next ==
    \/ Propagate
    \/ ExternalChange
    \/ GetZeroTierAuthToken
    \/ GetZeroTierStatus
    \/ CompareRemove
    \/ CompareAdd
    \/ JoinCheckAPIKey
    \/ JoinNetwork
    \/ JoinDone
    \/ LeaveCheckAPIKeyAndLeave
    \/ LeaveDone
    \/ Sleep
    \/ Refresh
    \/ BuildNodeConfig
    \/ SendAway
    \/ EmitStatus

Spec == Init /\ [][Next]_vars

\* Two invocations in succession.
NextTwice == Next \/ StartSecondRun

SpecTwice == Init /\ [][NextTwice]_vars

\* A run in check mode.  No line of the module reads module.check_mode: the
\* steps are those of any run.
SpecCheckMode == InitCheckMode /\ [][Next]_vars

\* A run with an external writer of the member records at work.
NextRace == Next \/ ExternalWrite

SpecRace == Init /\ [][NextRace]_vars

\* ZeroTierNode.__init__ alone (lines 86-91): the run up to the moment the
\* constructor returns.
NextConstructor ==
    \/ GetZeroTierAuthToken
    \/ GetZeroTierStatus

SpecConstructor == Init /\ [][NextConstructor]_vars

\* -------------------------------------------------------------- claims
Desired == DOMAIN networks

BeforeLists == {"token", "status", "compare_remove", "compare_add"}

\* compareTargetJoinedNetworks has returned its two lists.
Discovered ==
    \/ pc \notin BeforeLists \cup Terminal
    \/ pc \in Terminal /\ failed_at \notin BeforeLists

\* The description the caller asked for, under whichever key it came.
DesiredDescription(n) ==
    IF DescriptionKey \in DOMAIN networks[n]
    THEN networks[n][DescriptionKey]
    ELSE networks[n][DocumentedDescriptionKey]

\* The remote bag overridden key by key by the desired bag.
Merged(remote_bag, desired_bag) ==
    [k \in DOMAIN remote_bag \cup DOMAIN desired_bag |->
        IF k \in DOMAIN desired_bag THEN desired_bag[k] ELSE remote_bag[k]]

\* The merged target record of network n, given the record fetched.
Target(n, fetched) ==
    [name |-> NodeName,
     description |-> DesiredDescription(n),
     config |-> Merged(fetched.config, networks[n].config)]

\* C1: a run in which every call returned success has, once it is over,
\* reached Done with an access check and a join issued for every group of
\* toJoin and an access check and a leave issued for every group of toLeave.
C1_AllSuccessReachesDone ==
    (pc \in Terminal /\ ~call_failed) =>
        /\ pc = "done"
        /\ toJoin \subseteq checked /\ toJoin \subseteq joins
        /\ toLeave \subseteq checked /\ toLeave \subseteq leaves

\* C2: for every group whose attribute cycle has completed, if the fetched
\* record differs from the merged target record in a compared field, then
\* setMember was called for the group with the merged record and the run
\* reports changed=true.
C2_DifferenceIsWritten ==
    \A h \in handled :
        h.fetched /= Target(h.network, h.fetched) =>
            /\ \E c \in sets : /\ c.network = h.network
                               /\ c.sent = Target(h.network, h.fetched)
            /\ changed
            /\ pc = "done" => reported

\* C3: no setMember call is issued for a group whose fetched record already
\* equals the merged target record field for field.
C3_NoWriteWhenEqual ==
    \A c \in sets : c.fetched /= Target(c.network, c.fetched)

\* C4: when a run reaches Done, the reported changed flag is true if and
\* only if a group was joined, left or patched during the run.
C4_ChangedIffActed ==
    pc = "done" =>
        (reported <=> (joins /= {} \/ leaves /= {} \/ sets /= {}))

\* C5: a second complete run with the same desired state, started after the
\* services applied every join, leave and write of the first and with no
\* external change, reports changed=false and issues no join, leave or
\* setMember call.
C5_SecondRunIsNoOp ==
    (run = "second" /\ pc = "done" /\ ext_changes = 0) =>
        /\ ~reported
        /\ joins = {} /\ leaves = {} /\ sets = {}

\* C6: whenever setMember is issued for a group, the config bag written is
\* the fetched bag overridden key by key by the desired bag: every desired
\* key carries the desired value, every key only the remote bag has keeps
\* its remote value, and no key of the remote bag is dropped.
C6_WrittenBagIsMerge ==
    \A c \in sets :
        LET d == networks[c.network].config
            r == c.fetched.config
            w == c.sent.config
        IN  /\ DOMAIN w = DOMAIN r \cup DOMAIN d
            /\ \A k \in DOMAIN d : w[k] = d[k]
            /\ \A k \in DOMAIN r \ DOMAIN d : w[k] = r[k]

\* A write whose fetched bag has a key the desired bag overrides with
\* another value and a key the desired bag does not mention.
C6_Witness ==
    \E c \in sets :
        LET d == networks[c.network].config
            r == c.fetched.config
        IN  /\ \E k \in DOMAIN r \cap DOMAIN d : r[k] /= d[k]
            /\ DOMAIN r \ DOMAIN d /= {}

\* C7: a failed access check or join/leave call for one group does not
\* block the others: when the run is over, every other group of toJoin and
\* toLeave has been processed.
C7_FailureDoesNotBlockOthers ==
    (exit = "fail_json" /\ failed_at \in {"join", "join_call", "leave"}) =>
        (toJoin \cup toLeave) \ {network} \subseteq checked

\* C8: whatever the reads of the joined set returned, no group is in both
\* the join list and the leave list, and a group that is desired and was
\* reported as joined is in neither list.
C8_ListsDisjointAndStable ==
    Discovered =>
        /\ toJoin \cap toLeave = {}
        /\ \A g \in Desired \cap (read_remove \cup read_add) :
              g \notin toJoin \cup toLeave

\* C9: the join list is desired minus actual and the leave list is actual
\* minus desired for one and the same snapshot actual of the joined set:
\* whichever read of Discover is taken as the snapshot.
C9_ListsFromOneSnapshot ==
    Discovered =>
        \A actual \in {read_remove, read_add} :
            /\ toJoin = Desired \ actual
            /\ toLeave = actual \ Desired

\* C10: if a read of the joined set fails during Discover, the run aborts
\* with a failure result before any access check, join, leave, member read
\* or member write has been issued.
C10_DiscoverFailureAborts ==
    discover_failed =>
        /\ pc = "failed" /\ exit = "fail_json" /\ ~reported
        /\ checked = {} /\ joins = {} /\ leaves = {}
        /\ gets = {} /\ sets = {}

\* The second read of Discover failed after the first had found networks
\* to leave.
C10_Witness ==
    /\ discover_failed
    /\ failed_at = "compare_add"
    /\ toLeave /= {}

\* The phase of the run a position of main belongs to.
Phase(p) ==
    CASE p \in {"token", "status"} -> "Init"
      [] p \in {"compare_remove", "compare_add"} -> "Discover"
      [] p \in {"join", "join_call", "leave"} -> "Reconcile(Groups)"
      [] p = "sleep" -> "Wait(Propagation)"
      [] p \in {"refresh", "attr", "send"} -> "Reconcile(Attributes)"
      [] p = "done" -> "Done"
      [] OTHER -> "Failed"

PhaseOrder == <<"Init", "Discover", "Reconcile(Groups)", "Wait(Propagation)",
                "Reconcile(Attributes)", "Done">>

PhaseRank(p) == CHOOSE i \in 1..Len(PhaseOrder) : PhaseOrder[i] = Phase(p)

\* One step of a run keeps the order of the phases.
PhaseStep ==
    /\ pc \in Terminal => pc' = pc
    /\ (pc \notin Terminal /\ pc' \notin {"failed", "crashed"}) =>
          PhaseRank(pc') \in {PhaseRank(pc), PhaseRank(pc) + 1}
    /\ (joins' /= joins \/ leaves' /= leaves) =>
          Phase(pc) = "Reconcile(Groups)"
    /\ (gets' /= gets \/ sets' /= sets) =>
          Phase(pc) = "Reconcile(Attributes)"

\* C11: in every run the phases occur in the order Init, Discover,
\* Reconcile(Groups), Wait(Propagation), Reconcile(Attributes), Done: a step
\* stays in its phase, moves to the next one or ends the run in a failure,
\* never back and never past a phase; every join and leave call is issued
\* in Reconcile(Groups), before the wait, and every member read and member
\* write in Reconcile(Attributes), after it.
C11_PhasesInOrder == [][PhaseStep]_vars

\* A run that joined a network, waited, wrote a member record and is Done.
C11_Witness ==
    /\ pc = "done"
    /\ joins /= {}
    /\ sets /= {}

\* C12: a join or leave call for a group is issued only after an access
\* check for that same group has returned success earlier in the run: every
\* group with a join or leave issued is a group whose access check
\* returned 200.
C12_JoinOnlyAfterCheckSucceeded ==
    joins \cup leaves \subseteq check_ok

\* The attribute loop was entered: line 299 has returned its list.
Refreshed ==
    \/ pc \in {"attr", "send", "done"}
    \/ pc \in Terminal /\ failed_at \in {"attr", "send"}

\* The groups whose attribute cycle has completed.
Reconciled == {h.network : h \in handled}

\* C13: once the joined set is re-read after the wait, attribute
\* reconciliation is run exactly once for every group of that set, desired
\* or not, and for no other group, and the run reaches Done.  Stated for the
\* runs in which every call returned success and every desired entry
\* carries the description key the code reads, when they are over.
C13_EveryRereadGroupReconciledOnce ==
    (/\ pc \in Terminal
     /\ Refreshed
     /\ ~call_failed
     /\ \A n \in Desired : DescriptionKey \in DOMAIN networks[n]) =>
        /\ pc = "done"
        /\ Reconciled = refreshed
        /\ \A n \in refreshed :
              Cardinality({x \in gets : x.network = n}) = 1

\* getZeroTierStatus has returned the status and the constructor is over.
StatusReturned == pc = "compare_remove"

\* C14: the wait for the node to be online always terminates: it makes one
\* iteration when the status reports online and max_run_wait + 1 = 11
\* iterations otherwise, never more from any value of run_count, and in
\* both cases getZeroTierStatus returns the status it polled and the run
\* goes on to reconciliation without a failure.
C14_OnlineWaitTerminates ==
    /\ StatusReturned =>
          /\ iterations = (IF online THEN 1 ELSE max_run_wait + 1)
          /\ exit = "running"
          /\ ~call_failed
    /\ \A run_count \in 0..(max_run_wait + 1), isOnline \in BOOLEAN :
          OnlineWait(run_count, isOnline) <= max_run_wait + 1 - run_count

\* The wait ran to its end with the node not online, and the run went on.
C14_Witness ==
    /\ StatusReturned
    /\ ~online
    /\ iterations = max_run_wait + 1

\* C16: each retry of the online wait polls the local status endpoint
\* again: when the wait is over, the status has been polled once for every
\* iteration the wait made.
C16_EachRetryPolls ==
    StatusReturned => status_polls = iterations

\* The record buildNodeConfig makes of the record it fetched for network n.
BuiltFrom(n, fetched) ==
    [name |-> NodeName,
     description |-> networks[n][DescriptionKey],
     config |-> UpdateDict(fetched.config, networks[n].config)]

\* Record r holds every field record w carries, with the value w gives it.
Carries(r, w) ==
    /\ r.name = w.name
    /\ r.description = w.description
    /\ \A k \in DOMAIN w.config : k \in DOMAIN r.config /\ r.config[k] = w.config[k]

\* C15: the attribute cycle is an unprotected read-modify-write: every
\* member write is built from the copy the run fetched, whatever the remote
\* record holds when the write is issued, and once the write has succeeded
\* the remote record holds the written value in every field the write
\* carries, whatever an external writer put there in between.
C15_WriteFromStaleCopyWins ==
    \A c \in sets :
        /\ c.sent = BuiltFrom(c.network, c.fetched)
        /\ c.network \in Reconciled => Carries(remote[c.network], c.sent)

\* A lost update: after the run fetched the record an external writer
\* changed its name, its description and a config key, and the run's
\* write, which succeeded, put the value of the stale copy or the desired
\* value back into each of them.
C15_Witness ==
    \E c \in sets :
        /\ c.network \in Reconciled
        /\ c.found.name /= c.fetched.name
        /\ c.found.description /= c.fetched.description
        /\ \E k \in DOMAIN c.found.config \cap DOMAIN c.fetched.config :
              /\ c.found.config[k] /= c.fetched.config[k]
              /\ k \notin DOMAIN networks[c.network].config
        /\ ~Carries(c.found, c.sent)
        /\ Carries(remote[c.network], c.sent)

\* C17: when the module is invoked in check mode, no state-mutating call
\* (join, leave or setMember) is issued to the local endpoint or the remote
\* API.
C17_CheckModeMutatesNothing ==
    check_mode => (joins = {} /\ leaves = {} /\ sets = {})

\* The joins the local service accepted.
JoinsApplied ==
    joins \ (IF failed_at = "join_call" THEN {network} ELSE {})

\* The member writes the remote API accepted.
SetsApplied == {c \in sets : c.network \in Reconciled}

\* C18: every failure exit of the run reports changed=False, and when the
\* run ends with a failure result no join, leave or member write had been
\* applied earlier in the run.
C18_FailedRunAppliedNothing ==
    exit = "fail_json" =>
        /\ ~reported
        /\ JoinsApplied = {}
        /\ leaves = {}
        /\ SetsApplied = {}

====
